---- MODULE Spec2Model ----
(***************************************************************************)
(* Model of the signed-distance-field crate: BinaryByteImage construction  *)
(* (src/src/binary_image.rs), SignedDistanceField::compute with its four   *)
(* stages and NormalizedDistanceField::normalize / normalize_clamped       *)
(* (src/src/distance_field.rs).                                            *)
(*                                                                         *)
(* Floating point.  Every distance the compute stages handle is 0, a value *)
(* >= 1 or an infinity, and every f32 (and f16) value >= 1 is a multiple   *)
(* of 2^-23.  Such values are held as integers counting units of 2^-23     *)
(* (1.0 is Unit), with the roundings of f32 addition (24 significant bits) *)
(* and of the f16 storage (11 significant bits) applied where the code     *)
(* applies them.  The two infinities are the sentinels INFINITY and        *)
(* NEG_INFINITY, which lie beyond every finite value of the bounded model. *)
(* The sign of a zero is not kept: -0.0 and 0.0 compare equal in every     *)
(* comparison the code makes.  The quotients that the normalizations       *)
(* store lie in [0,1] and are held as floats [cls, sgn, sig, exp] of value *)
(* sgn * sig * 2^exp, computed by a correctly rounded long division.       *)
(***************************************************************************)
EXTENDS Integers, Sequences, FiniteSets, TLC

\* ------------------------------------------------------------------ bounds
\* Largest number of pixels (width * height) of the images explored in full;
\* width and height (u16 in the code) each range over 0 .. MaxPixels within
\* that.  WideImages adds four single larger images.
MaxPixels == 6

\* ------------------------------------------------------- program constants
\* 1.0 in units of 2^-23.
Unit == 2 * 2 * 2 * 2 * 2 * 2 * 2 * 2 * 2 * 2 * 2 * 2 * 2 * 2 * 2 * 2 * 2 * 2 * 2 * 2 * 2 * 2 * 2
\* std::f32::INFINITY / NEG_INFINITY as sentinels beyond every finite value.
INFINITY == 1073741824
NEG_INFINITY == -1073741824
\* BinaryByteImage::from_slice's default threshold.
DefaultThreshold == 127

\* --------------------------------------------------------------- f32 / f16
RECURSIVE Pow2Rec(_)
Pow2Rec(k) == IF k <= 0 THEN 1 ELSE 2 * Pow2Rec(k - 1)
Pow2Table == [k \in 0..30 |-> Pow2Rec(k)]
Pow2(k) == Pow2Table[k]

Abs(n) == IF n < 0 THEN -n ELSE n
Min(a, b) == IF a <= b THEN a ELSE b
Max(a, b) == IF a >= b THEN a ELSE b

IsInfinite(v) == v = INFINITY \/ v = NEG_INFINITY

\* n / q rounded to the nearest integer, ties to even (n >= 0, q >= 1).
DivRoundHalfEven(n, q) ==
    LET lo == n \div q
        r2 == 2 * (n % q)
    IN  IF r2 < q THEN lo
        ELSE IF r2 > q THEN lo + 1
        ELSE IF lo % 2 = 0 THEN lo ELSE lo + 1

\* Number of bits of n >= 0 beyond `bits` significant ones.
RECURSIVE ExcessBitsFrom(_, _, _)
ExcessBitsFrom(n, bits, k) ==
    IF n < Pow2(bits + k) THEN k ELSE ExcessBitsFrom(n, bits, k + 1)
ExcessBits(n, bits) == ExcessBitsFrom(n, bits, 0)

\* A non-negative integer rounded to `bits` significant bits, ties to even.
RoundSigNat(n, bits) ==
    LET q == Pow2(ExcessBits(n, bits)) IN q * DivRoundHalfEven(n, q)

\* An exact value in units rounded to `bits` significant bits.
RoundSig(v, bits) == IF v < 0 THEN -RoundSigNat(-v, bits) ELSE RoundSigNat(v, bits)

\* f32 `a + b` of two f32 values in units (never INFINITY + NEG_INFINITY here).
F32Add(a, b) ==
    IF a = INFINITY \/ b = INFINITY THEN INFINITY
    ELSE IF a = NEG_INFINITY \/ b = NEG_INFINITY THEN NEG_INFINITY
    ELSE RoundSig(a + b, 24)

\* f32 `a - b` of two finite f32 values in units.
F32Sub(a, b) == RoundSig(a - b, 24)

\* f32 `-a`.
F32Neg(a) == IF a = INFINITY THEN NEG_INFINITY
             ELSE IF a = NEG_INFINITY THEN INFINITY ELSE -a

\* (n as f32).sqrt() in units for n = 0 .. 113: the correctly rounded f32 roots.
F32SqrtTable ==
    << 0, 8388608, 11863283, 14529495, 16777216, 18757498, 20547810, 22194170,
       23726566, 25165824, 26527108, 27821866, 29058990, 30245556, 31387298,
       32488940, 33554432, 34587116, 35589848, 36565096, 37514996, 38441432,
       39346060, 40230352, 41095620, 41943040, 42773676, 43588484, 44388340,
       45174036, 45946300, 46705792, 47453132, 48188884, 48913568, 49627676,
       50331648, 51025912, 51710852, 52386840, 53054216, 53713300, 54364392,
       55007780, 55643732, 56272492, 56894308, 57509400, 58117980, 58720256,
       59316416, 59906644, 60491112, 61069988, 61643428, 62211580, 62774596,
       63332600, 63885736, 64434120, 64977880, 65517124, 66051964, 66582512,
       67108864, 67631120, 68149376, 68663712, 69174232, 69681008, 70184128,
       70683664, 71179696, 71672296, 72161536, 72647480, 73130192, 73609736,
       74086176, 74559576, 75029992, 75497472, 75962080, 76423856, 76882864,
       77339144, 77792752, 78243728, 78692120, 79137968, 79581320, 80022224,
       80460704, 80896808, 81330576, 81762040, 82191240, 82618208, 83042984,
       83465592, 83886080, 84304464, 84720784, 85135072, 85547352, 85957656,
       86366008, 86772432, 87176968, 87579640, 87980464, 88379472, 88776680,
       89172128 >>

F32Sqrt(n) == F32SqrtTable[n + 1]

\* half::f16::from_f32 followed by to_f32, on a value in units: 11 significant
\* bits (the values of the compute stages are 0, at least 1.0, or infinite).
F16Round(v) == IF IsInfinite(v) THEN v ELSE RoundSig(v, 11)

\* ------------------------------------------------------- DistanceStorage
Storages == {"F16", "F32"}

\* Mutant: a storage that starts with every slot at 0.0.
StorageNew_zeroed(length) == [i \in 1..length |-> 0]

\* DistanceStorage::new: `length` slots, all INFINITY.
StorageNew(length) == [i \in 1..length |-> INFINITY]

\* What DistanceStorage::set keeps of an f32 value (and get returns).
StorageValue(kind, v) == IF kind = "F16" THEN F16Round(v) ELSE v

\* ----------------------------------------------------------- BinaryImage
\* The bytes a buffer is drawn from: the two values around the default threshold.
ByteValues == {127, 128}
Thresholds == {127, 128}

NoImage == [width |-> 0, height |-> 0, buffer |-> << >>, threshold |-> 0]

\* Check if x and y are valid pixel coordinates inside a width x height image.
is_valid_index(x, y, width, height) == x >= 0 /\ y >= 0 /\ x < width /\ y < height

\* BinaryByteImage::is_inside indexes the slice; the index is checked in every build.
is_inside_in_buffer(img, x, y) == img.width * y + x < Len(img.buffer)

\* Mutant: is_inside that counts a byte equal to the threshold as inside.
is_inside_at_threshold(img, x, y) == img.buffer[img.width * y + x + 1] >= img.threshold

\* BinaryByteImage::is_inside, where the index lies in the buffer.
is_inside(img, x, y) == img.buffer[img.width * y + x + 1] > img.threshold

\* The debug_assert_eq! of from_slice_with_threshold: it exists in builds with
\* debug assertions only.
construction_asserts(debug, width, height, buffer) ==
    debug => Len(buffer) = width * height

\* Mutant: the edge test that forgets the neighbour below.
EdgeNeighbours_without_below == << <<-1, 0>>, <<1, 0>>, <<0, -1>> >>

\* is_at_edge over the four neighbours in the order of compute's `||` chain:
\* "edge", "none", or "panic" when is_inside indexes past the buffer.
EdgeNeighbours == << <<-1, 0>>, <<1, 0>>, <<0, -1>>, <<0, 1>> >>

\* Mutant: an edge test that marks the outside pixel of an edge only.
is_at_edge_from_outside(img, x, y, neighbour_x, neighbour_y) ==
    LET nx == x + neighbour_x
        ny == y + neighbour_y
    IN  IF ~is_valid_index(nx, ny, img.width, img.height) THEN "none"
        ELSE IF ~is_inside_in_buffer(img, x, y) THEN "panic"
        ELSE IF ~is_inside_in_buffer(img, nx, ny) THEN "panic"
        ELSE IF ~is_inside(img, x, y) /\ is_inside(img, nx, ny) THEN "edge"
        ELSE "none"

is_at_edge(img, x, y, neighbour_x, neighbour_y) ==
    LET nx == x + neighbour_x
        ny == y + neighbour_y
    IN  IF ~is_valid_index(nx, ny, img.width, img.height) THEN "none"
        ELSE IF ~is_inside_in_buffer(img, x, y) THEN "panic"
        ELSE IF ~is_inside_in_buffer(img, nx, ny) THEN "panic"
        ELSE IF is_inside(img, x, y) # is_inside(img, nx, ny) THEN "edge"
        ELSE "none"

RECURSIVE any_edge(_, _, _, _)
any_edge(img, x, y, k) ==
    IF k > Len(EdgeNeighbours) THEN "none"
    ELSE LET r == is_at_edge(img, x, y, EdgeNeighbours[k][1], EdgeNeighbours[k][2])
         IN  IF r = "none" THEN any_edge(img, x, y, k + 1) ELSE r

\* ---------------------------------------------------- SignedDistanceField
NoField == [width |-> 0, height |-> 0, distances |-> << >>, distance_targets |-> << >>]

\* The field compute allocates: all distances INFINITY, all targets (0, 0).
new_field(width, height) ==
    [width |-> width, height |-> height,
     distances |-> StorageNew(width * height),
     distance_targets |-> [i \in 1..(width * height) |-> <<0, 0>>]]

\* Row-major index of (x, y); sequences are 1-based, hence the + 1 at each use.
flatten_index(f, x, y) == f.width * y + x

\* The length of a vector with x and y coordinates.
length(x, y) == F32Sqrt(x * x + y * y)

\* The distance between two points.
distance(x, y, target_x, target_y) == length(x - target_x, y - target_y)

get_distance(f, x, y) == f.distances[flatten_index(f, x, y) + 1]

get_distance_target(f, x, y) == f.distance_targets[flatten_index(f, x, y) + 1]

\* Mutant: an absent neighbour that offers the candidate 0.0.
distance_by_neighbour_absent_zero(f, x, y, neighbour_x, neighbour_y) ==
    LET nx == x + neighbour_x
        ny == y + neighbour_y
    IN  IF is_valid_index(nx, ny, f.width, f.height)
        THEN F32Add(get_distance(f, nx, ny), length(neighbour_x, neighbour_y))
        ELSE 0

\* Mutant: a candidate that is the neighbour's distance alone, the length of
\* the offset not added.
distance_by_neighbour_without_offset(f, x, y, neighbour_x, neighbour_y) ==
    LET nx == x + neighbour_x
        ny == y + neighbour_y
    IN  IF is_valid_index(nx, ny, f.width, f.height)
        THEN get_distance(f, nx, ny)
        ELSE INFINITY

\* The candidate a neighbour offers: its distance plus the offset's length,
\* INFINITY where there is no neighbour.
distance_by_neighbour(f, x, y, neighbour_x, neighbour_y) ==
    LET nx == x + neighbour_x
        ny == y + neighbour_y
    IN  IF is_valid_index(nx, ny, f.width, f.height)
        THEN F32Add(get_distance(f, nx, ny), length(neighbour_x, neighbour_y))
        ELSE INFINITY

set_target_with_distance(kind, f, x, y, target_x, target_y, d) ==
    LET index == flatten_index(f, x, y) + 1
    IN  [f EXCEPT !.distances[index] = StorageValue(kind, d),
                  !.distance_targets[index] = <<target_x, target_y>>]

\* The f32 distance that set_target_and_distance stores and returns.
target_distance(f, x, y, target_x, target_y) == distance(x, y, target_x, target_y)

set_target_and_distance(kind, f, x, y, target_x, target_y) ==
    set_target_with_distance(kind, f, x, y, target_x, target_y,
                             target_distance(f, x, y, target_x, target_y))

\* Mutant: the write that keeps the additive candidate (the neighbour's distance
\* plus the offset's length) instead of the distance recomputed from the target.
take_neighbour_target_additive(kind, f, x, y, neighbour_x, neighbour_y) ==
    LET t == get_distance_target(f, x + neighbour_x, y + neighbour_y)
        c == distance_by_neighbour(f, x, y, neighbour_x, neighbour_y)
    IN  [field |-> set_target_with_distance(kind, f, x, y, t[1], t[2], c),
         own |-> c]

\* Mutant: the write that takes the neighbour itself, not the neighbour's
\* target, as the pixel's target.
take_neighbour_as_target(kind, f, x, y, neighbour_x, neighbour_y) ==
    [field |-> set_target_and_distance(kind, f, x, y, x + neighbour_x, y + neighbour_y),
     own |-> target_distance(f, x, y, x + neighbour_x, y + neighbour_y)]

\* take_neighbour_target: the field after the write, and the f32 it returns.
take_neighbour_target(kind, f, x, y, neighbour_x, neighbour_y) ==
    LET t == get_distance_target(f, x + neighbour_x, y + neighbour_y)
    IN  [field |-> set_target_and_distance(kind, f, x, y, t[1], t[2]),
         own |-> target_distance(f, x, y, t[1], t[2])]

\* Mutant: the negated distance is computed and not stored.
invert_distance_sign_dropped(f, x, y) == f

\* Mutant: a sign flip that also resets the pixel's target.
invert_distance_sign_resetting_target(f, x, y) ==
    LET index == f.width * y + x + 1
    IN  [f EXCEPT !.distances[index] = F32Neg(f.distances[index]),
                  !.distance_targets[index] = <<0, 0>>]

invert_distance_sign(f, x, y) ==
    LET index == flatten_index(f, x, y) + 1
    IN  [f EXCEPT !.distances[index] = F32Neg(f.distances[index])]

\* Mutants: a forward sweep that forgets the left neighbour, a backward sweep
\* that forgets the right one.
ForwardNeighbours_without_left == << <<-1, -1>>, <<0, -1>>, <<1, -1>> >>
BackwardNeighbours_without_right == << <<-1, 1>>, <<0, 1>>, <<1, 1>> >>

\* The neighbour offsets of the two sweeps, in the order the code examines them.
ForwardNeighbours == << <<-1, -1>>, <<0, -1>>, <<1, -1>>, <<-1, 0>> >>
BackwardNeighbours == << <<1, 0>>, <<-1, 1>>, <<0, 1>>, <<1, 1>> >>

\* The candidates of one visit, all fetched before any write.
candidates(f, x, y, offsets) ==
    [k \in 1..Len(offsets) |-> distance_by_neighbour(f, x, y, offsets[k][1], offsets[k][2])]

\* Mutant: an update chain that also takes a candidate equal to `own`.
RECURSIVE visit_writes_taking_ties(_, _, _, _, _, _, _, _)
visit_writes_taking_ties(kind, f, x, y, offsets, cands, own, k) ==
    IF k > Len(offsets) THEN << >>
    ELSE IF cands[k] <= own /\ cands[k] # INFINITY
         THEN LET r == take_neighbour_target(kind, f, x, y, offsets[k][1], offsets[k][2])
              IN  <<r.field>> \o visit_writes_taking_ties(kind, r.field, x, y, offsets,
                                                          cands, r.own, k + 1)
         ELSE visit_writes_taking_ties(kind, f, x, y, offsets, cands, own, k + 1)

\* The `if candidate < own { own = take_neighbour_target(..) }` chain from the
\* k-th neighbour on: the fields after each write, in order.
RECURSIVE visit_writes(_, _, _, _, _, _, _, _)
visit_writes(kind, f, x, y, offsets, cands, own, k) ==
    IF k > Len(offsets) THEN << >>
    ELSE IF cands[k] < own
         THEN LET r == take_neighbour_target(kind, f, x, y, offsets[k][1], offsets[k][2])
              IN  <<r.field>> \o visit_writes(kind, r.field, x, y, offsets, cands, r.own, k + 1)
         ELSE visit_writes(kind, f, x, y, offsets, cands, own, k + 1)

\* One visit of a sweep: the field after it.
visit(kind, f, x, y, offsets) ==
    LET w == visit_writes(kind, f, x, y, offsets, candidates(f, x, y, offsets),
                          get_distance(f, x, y), 1)
    IN  IF w = << >> THEN f ELSE w[Len(w)]

\* ------------------------------------------- f32 values of any magnitude
\* A float [cls, sgn, sig, exp]: cls "num" has value sgn * sig * 2^exp with
\* sig = 0 (and exp = 0) or 2^23 <= sig < 2^24, so equal values are equal records.
FZero == [cls |-> "num", sgn |-> 1, sig |-> 0, exp |-> 0]
FNaN == [cls |-> "nan", sgn |-> 1, sig |-> 0, exp |-> 0]
FInf(s) == [cls |-> "inf", sgn |-> s, sig |-> 0, exp |-> 0]

\* The float of value sgn * m * 2^e, for m > 0 of at most 24 significant bits.
RECURSIVE Canon(_, _, _)
Canon(s, m, e) ==
    IF m = 0 THEN FZero
    ELSE IF m < Pow2(23) THEN Canon(s, 2 * m, e - 1)
    ELSE IF m >= Pow2(24) THEN Canon(s, m \div 2, e + 1)
    ELSE [cls |-> "num", sgn |-> s, sig |-> m, exp |-> e]

FHalf == Canon(1, 1, -1)
FOne == Canon(1, 1, 0)

\* The float of an f32 value held in units of 2^-23.
FromUnits(v) ==
    IF v = INFINITY THEN FInf(1)
    ELSE IF v = NEG_INFINITY THEN FInf(-1)
    ELSE Canon(IF v < 0 THEN -1 ELSE 1, Abs(v), -23)

\* Long division: the next n quotient bits of r / b (r < b), and the remainder.
RECURSIVE QuotientBits(_, _, _, _)
QuotientBits(r, b, n, acc) ==
    IF n = 0 THEN [q |-> acc, r |-> r]
    ELSE IF 2 * r >= b THEN QuotientBits(2 * r - b, b, n - 1, 2 * acc + 1)
    ELSE QuotientBits(2 * r, b, n - 1, 2 * acc)

\* a / b for b <= a < 2b, a and b positive: 24 significant bits, ties to even,
\* as the float of value q * 2^(e - 23).
DivAligned(s, a, b, e) ==
    LET d == QuotientBits(a - b, b, 23, 1)
        up == 2 * d.r > b \/ (2 * d.r = b /\ d.q % 2 = 1)
    IN  Canon(s, IF up THEN d.q + 1 ELSE d.q, e - 23)

RECURSIVE DivPositive(_, _, _, _)
DivPositive(s, a, b, e) ==
    IF a < b THEN DivPositive(s, 2 * a, b, e - 1)
    ELSE IF a - b >= b THEN DivPositive(s, a, 2 * b, e + 1)
    ELSE DivAligned(s, a, b, e)

\* f32 `a / b` of two finite f32 values given in units: 0/0 is NaN.
F32Div(a, b) ==
    IF b = 0 THEN (IF a = 0 THEN FNaN ELSE FInf(IF a < 0 THEN -1 ELSE 1))
    ELSE IF a = 0 THEN FZero
    ELSE DivPositive(IF (a < 0) = (b < 0) THEN 1 ELSE -1, Abs(a), Abs(b), 0)

\* half::f16::from_f32 followed by to_f32 on a float: 11 significant bits above
\* 2^-14, multiples of 2^-24 below, infinite from 2^16 on.
F16OfFloat(f) ==
    IF f.cls # "num" \/ f.sig = 0 THEN f
    ELSE LET drop == Max(13, -24 - f.exp)
             m == IF drop >= 25 THEN 0 ELSE DivRoundHalfEven(f.sig, Pow2(drop))
             r == Canon(f.sgn, m, f.exp + drop)
         IN  IF r.sig # 0 /\ r.exp + 23 >= 16 THEN FInf(f.sgn) ELSE r

\* What DistanceStorage::set keeps of an f32 quotient.
StorageFloat(kind, f) == IF kind = "F16" THEN F16OfFloat(f) ELSE f

\* 0 <= f <= 1, and neither NaN nor infinite.
InUnitRange(f) ==
    /\ f.cls = "num"
    /\ \/ f.sig = 0
       \/ f.sgn = 1 /\ (f.exp < -23 \/ f = FOne)

\* ------------------------------------------------ NormalizedDistanceField
\* Scale the value so that it fits into the range [0,1].
normalize(value, min, max) == F32Div(F32Sub(value, min), F32Sub(max, min))

NoResult ==
    [result |-> "pending", by |-> "", max |-> 0, width |-> 0, height |-> 0,
     distances |-> << >>, zero_distance |-> FZero,
     former_min_distance |-> INFINITY, former_max_distance |-> NEG_INFINITY]

\* The fold of NormalizedDistanceField::normalize over the first n distances.
RECURSIVE fold_min_max(_, _)
fold_min_max(ds, n) ==
    IF n = 0 THEN [min |-> INFINITY, max |-> NEG_INFINITY]
    ELSE LET m == fold_min_max(ds, n - 1)
         IN  [min |-> Min(m.min, ds[n]), max |-> Max(m.max, ds[n])]

\* NormalizedDistanceField::normalize.
NormalizedDistanceField_normalize(kind, f) ==
    LET n == f.width * f.height
        m == fold_min_max(f.distances, n)
    IN  IF IsInfinite(m.min) \/ IsInfinite(m.max)
        THEN [NoResult EXCEPT !.result = "None", !.by = "normalize"]
        ELSE [result |-> "Some", by |-> "normalize", max |-> 0,
              width |-> f.width, height |-> f.height,
              distances |-> [i \in 1..Len(f.distances) |->
                  IF i <= n
                  THEN StorageFloat(kind, normalize(f.distances[i], m.min, m.max))
                  ELSE FromUnits(f.distances[i])],
              zero_distance |-> F32Div(F32Sub(0, m.min), F32Sub(m.max, m.min)),
              former_min_distance |-> m.min, former_max_distance |-> m.max]

\* The height normalize_clamped gives the field it builds.
clamped_height(f) == f.width

\* The loop of normalize_clamped from `index` on; nf is the field built so far.
RECURSIVE clamped_loop(_, _, _, _, _)
clamped_loop(kind, f, max, nf, index) ==
    IF index >= nf.width * nf.height THEN [nf EXCEPT !.result = "Some"]
    ELSE IF index >= Len(f.distances)
         THEN [NoResult EXCEPT !.result = "panic", !.by = nf.by, !.max = max]
    ELSE LET d == f.distances[index + 1]
         IN  IF IsInfinite(d)
             THEN [NoResult EXCEPT !.result = "None", !.by = nf.by, !.max = max]
             ELSE LET clamped == Max(Min(d, max), -max)
                      v == StorageFloat(kind, normalize(clamped, -max, max))
                  IN  clamped_loop(kind, f, max,
                          [nf EXCEPT !.distances[index + 1] = v,
                                     !.former_max_distance = Max(@, d),
                                     !.former_min_distance = Min(@, d)],
                          index + 1)

\* NormalizedDistanceField::normalize_clamped.
NormalizedDistanceField_normalize_clamped(kind, f, max) ==
    clamped_loop(kind, f, max,
        [result |-> "pending", by |-> "normalize_clamped", max |-> max,
         width |-> f.width, height |-> clamped_height(f),
         distances |-> [i \in 1..Len(f.distances) |-> FromUnits(f.distances[i])],
         zero_distance |-> FHalf,
         former_min_distance |-> INFINITY, former_max_distance |-> NEG_INFINITY],
        0)

\* ------------------------------------------- the calls a stage's step makes
\* The coordinates is_inside is called with by the `||` chain of is_at_edge
\* calls for pixel (x, y), from the k-th neighbour on: none for a neighbour that
\* is_valid_index rejects (`&&`), none after the first call that returns true.
RECURSIVE is_inside_calls(_, _, _, _)
is_inside_calls(img, x, y, k) ==
    IF k > Len(EdgeNeighbours) THEN {}
    ELSE LET nx == x + EdgeNeighbours[k][1]
             ny == y + EdgeNeighbours[k][2]
             r == is_at_edge(img, x, y, EdgeNeighbours[k][1], EdgeNeighbours[k][2])
         IN  (IF is_valid_index(nx, ny, img.width, img.height)
              THEN {<<x, y>>, <<nx, ny>>} ELSE {})
             \cup (IF r = "none" THEN is_inside_calls(img, x, y, k + 1) ELSE {})

\* The coordinates whose distance one visit reads before its first write: the
\* neighbours distance_by_neighbour finds valid, and the pixel itself.
visit_reads(f, x, y, offsets) ==
    {<<x, y>>} \cup
    {n \in {<<x + offsets[k][1], y + offsets[k][2]>> : k \in 1..Len(offsets)} :
        is_valid_index(n[1], n[2], f.width, f.height)}

\* The neighbours take_neighbour_target is invoked for in one visit, from the
\* k-th on, in order; the list ends with a neighbour outside the raster, whose
\* target cannot be read.
RECURSIVE visit_takes(_, _, _, _, _, _, _, _)
visit_takes(kind, f, x, y, offsets, cands, own, k) ==
    IF k > Len(offsets) THEN << >>
    ELSE IF cands[k] < own
         THEN LET n == <<x + offsets[k][1], y + offsets[k][2]>>
              IN  IF ~is_valid_index(n[1], n[2], f.width, f.height) THEN <<n>>
                  ELSE LET r == take_neighbour_target(kind, f, x, y,
                                                      offsets[k][1], offsets[k][2])
                       IN  <<n>> \o visit_takes(kind, r.field, x, y, offsets,
                                                cands, r.own, k + 1)
         ELSE visit_takes(kind, f, x, y, offsets, cands, own, k + 1)

\* The comparisons of one visit from the k-th on, one record each: the
\* candidate, the `own` it is compared with, the field before the comparison,
\* whether take_neighbour_target was called, and the field after.
RECURSIVE visit_steps(_, _, _, _, _, _, _, _)
visit_steps(kind, f, x, y, offsets, cands, own, k) ==
    IF k > Len(offsets) THEN << >>
    ELSE IF cands[k] < own
         THEN LET r == take_neighbour_target(kind, f, x, y, offsets[k][1], offsets[k][2])
              IN  <<[offset |-> offsets[k], candidate |-> cands[k], own |-> own,
                     before |-> f, took |-> TRUE, after |-> r.field,
                     \* the last comparison of a visit discards the returned distance
                     own_after |-> r.own]>>
                  \o visit_steps(kind, r.field, x, y, offsets, cands, r.own, k + 1)
         ELSE <<[offset |-> offsets[k], candidate |-> cands[k], own |-> own,
                 before |-> f, took |-> FALSE, after |-> f, own_after |-> own]>>
              \o visit_steps(kind, f, x, y, offsets, cands, own, k + 1)

\* ------------------------------------------------------------------ state
VARIABLES
    debug_assertions,   \* the build: TRUE where debug_assert! is compiled in
    storage,            \* the DistanceStorage the field is instantiated with
    image,              \* the BinaryByteImage, once constructed
    pc,                 \* "new", "constructed", the stage of compute, "done",
                        \* "normalized", "panic"
    cursor,             \* iterations completed in the current stage's loop
    distance_field,     \* compute's `distance_field`
    normalized          \* what a normalization returned

vars == <<debug_assertions, storage, image, pc, cursor, distance_field, normalized>>

\* The max values a caller passes to normalize_clamped: 1.0, 1.5 and 10.0.
ClampMaxima == {Unit, 3 * (Unit \div 2), 10 * Unit}

\* Buffer lengths offered to the constructors: the right one and its neighbours.
BufferLengths(width, height) ==
    {l \in {width * height - 1, width * height, width * height + 1} : l >= 0}

\* The <<width, height>> pairs offered to the constructors.
Dimensions ==
    {d \in (0..MaxPixels) \X (0..MaxPixels) : d[1] * d[2] <= MaxPixels}

Init ==
    /\ debug_assertions \in BOOLEAN
    /\ storage \in Storages
    /\ image = NoImage
    /\ pc = "new"
    /\ cursor = 0
    /\ distance_field = NoField
    /\ normalized = NoResult

\* BinaryByteImage::from_slice_with_threshold.
from_slice_with_threshold(width, height, buffer, threshold) ==
    /\ pc = "new"
    /\ IF construction_asserts(debug_assertions, width, height, buffer)
       THEN /\ image' = [width |-> width, height |-> height,
                         buffer |-> buffer, threshold |-> threshold]
            /\ pc' = "constructed"
       ELSE /\ image' = image
            /\ pc' = "panic"
    /\ UNCHANGED <<debug_assertions, storage, cursor, distance_field, normalized>>

\* BinaryByteImage::from_slice.
from_slice(width, height, buffer) ==
    from_slice_with_threshold(width, height, buffer, DefaultThreshold)

\* Four images larger than the enumerated ones, offered to from_slice as well:
\* the pixels of `corners` (indices into the buffer) on one side of the
\* threshold and every other pixel on the other side.
CornerBuffer(size, corners, corner, rest) ==
    [i \in 1..size |-> IF i \in corners THEN corner ELSE rest]

WideImages ==
    {[width |-> 5, height |-> 4, buffer |-> CornerBuffer(20, {1, 5}, 128, 127)],
     [width |-> 5, height |-> 4, buffer |-> CornerBuffer(20, {1, 5}, 127, 128)],
     [width |-> 4, height |-> 5, buffer |-> CornerBuffer(20, {1}, 128, 127)],
     [width |-> 8, height |-> 9, buffer |-> CornerBuffer(72, {1}, 128, 127)]}

FromSlice ==
    /\ pc = "new"
    /\ \/ \E d \in Dimensions :
            \E l \in BufferLengths(d[1], d[2]) :
                \E buffer \in [1..l -> ByteValues] :
                    from_slice(d[1], d[2], buffer)
       \/ \E w \in WideImages : from_slice(w.width, w.height, w.buffer)

FromSliceWithThreshold ==
    /\ pc = "new"
    /\ \E d \in Dimensions, threshold \in Thresholds :
        \E l \in BufferLengths(d[1], d[2]) :
            \E buffer \in [1..l -> ByteValues] :
                from_slice_with_threshold(d[1], d[2], buffer, threshold)

\* The stages of compute in order, and the stage entered after `stage` when the
\* image has n pixels (a loop over no pixel is passed at once).
NextStage(stage) ==
    CASE stage = "constructed" -> "seed"
      [] stage = "seed" -> "forward"
      [] stage = "forward" -> "backward"
      [] stage = "backward" -> "flip"
      [] stage = "flip" -> "done"

\* pc and cursor after one more iteration of `stage`'s loop over n pixels.
Advance(stage, n) ==
    IF cursor + 1 < n
    THEN pc' = stage /\ cursor' = cursor + 1
    ELSE pc' = NextStage(stage) /\ cursor' = 0

PixelCount == image.width * image.height

\* The pixel of iteration `cursor` in a loop `for y in 0..height { for x in 0..width`.
CurX == cursor % image.width
CurY == cursor \div image.width
\* ... and in `for y in (0..height).rev() { for x in (0..width).rev()`.
RevX == (PixelCount - 1 - cursor) % image.width
RevY == (PixelCount - 1 - cursor) \div image.width

\* compute up to its first loop: the allocation of the field.
ComputeBegin ==
    /\ pc = "constructed"
    /\ distance_field' = new_field(image.width, image.height)
    /\ pc' = IF PixelCount = 0 THEN "done" ELSE "seed"
    /\ cursor' = 0
    /\ UNCHANGED <<debug_assertions, storage, image, normalized>>

\* One iteration of the edge-seeding loop.
SeedStep ==
    /\ pc = "seed"
    /\ LET e == any_edge(image, CurX, CurY, 1)
       IN  IF e = "panic"
           THEN pc' = "panic" /\ UNCHANGED <<cursor, distance_field>>
           ELSE /\ distance_field' =
                       IF e = "edge"
                       THEN set_target_with_distance(storage, distance_field,
                                                     CurX, CurY, CurX, CurY, 0)
                       ELSE distance_field
                /\ Advance("seed", PixelCount)
    /\ UNCHANGED <<debug_assertions, storage, image, normalized>>

\* One iteration of the forward sweep.
ForwardStep ==
    /\ pc = "forward"
    /\ distance_field' = visit(storage, distance_field, CurX, CurY, ForwardNeighbours)
    /\ Advance("forward", PixelCount)
    /\ UNCHANGED <<debug_assertions, storage, image, normalized>>

\* One iteration of the backward sweep.
BackwardStep ==
    /\ pc = "backward"
    /\ distance_field' = visit(storage, distance_field, RevX, RevY, BackwardNeighbours)
    /\ Advance("backward", PixelCount)
    /\ UNCHANGED <<debug_assertions, storage, image, normalized>>

\* One iteration of the sign-flip loop.
FlipStep ==
    /\ pc = "flip"
    /\ IF ~is_inside_in_buffer(image, CurX, CurY)
       THEN pc' = "panic" /\ UNCHANGED <<cursor, distance_field>>
       ELSE /\ distance_field' =
                   IF is_inside(image, CurX, CurY)
                   THEN invert_distance_sign(distance_field, CurX, CurY)
                   ELSE distance_field
            /\ Advance("flip", PixelCount)
    /\ UNCHANGED <<debug_assertions, storage, image, normalized>>

\* SignedDistanceField::normalize_distances on the field compute returned.
Normalize ==
    /\ pc = "done"
    /\ normalized' = NormalizedDistanceField_normalize(storage, distance_field)
    /\ pc' = "normalized"
    /\ UNCHANGED <<debug_assertions, storage, image, cursor, distance_field>>

\* SignedDistanceField::normalize_clamped_distances on the field compute returned.
NormalizeClamped ==
    /\ pc = "done"
    /\ \E max \in ClampMaxima :
           normalized' =
               NormalizedDistanceField_normalize_clamped(storage, distance_field, max)
    /\ pc' = IF normalized'.result = "panic" THEN "panic" ELSE "normalized"
    /\ UNCHANGED <<debug_assertions, storage, image, cursor, distance_field>>

Next ==
    \/ FromSlice
    \/ FromSliceWithThreshold
    \/ ComputeBegin
    \/ SeedStep
    \/ ForwardStep
    \/ BackwardStep
    \/ FlipStep
    \/ Normalize
    \/ NormalizeClamped

Spec == Init /\ [][Next]_vars

\* ------------------------------------------------- vocabulary of the claims
\* The pixels of the image, as <<x, y>>.
Pixels == (0..(image.width - 1)) \X (0..(image.height - 1))

PixelIndex(p) == image.width * p[2] + p[1] + 1

\* Every pixel of the image can be read from the buffer.
Readable == Len(image.buffer) >= PixelCount

Inside(p) == image.buffer[PixelIndex(p)] > image.threshold

FourNeighbours(p) ==
    {q \in Pixels : Abs(q[1] - p[1]) + Abs(q[2] - p[2]) = 1}

\* A pixel whose classification differs from an in-bounds 4-connected neighbour.
IsBoundary(p) == \E q \in FourNeighbours(p) : Inside(q) # Inside(p)

BoundaryPixels == {p \in Pixels : IsBoundary(p)}

HasBoundary == BoundaryPixels # {}

\* All pixels inside, or all pixels outside.
Uniform == \A p \in Pixels, q \in Pixels : Inside(p) = Inside(q)

\* compute has returned its field (a normalization may have consumed it since).
ComputeReturned == pc = "done" \/ normalized.result # "pending"

\* compute has allocated its field.
FieldAllocated == pc \notin {"new", "constructed"} /\ image # NoImage

StoredDistance(p) == distance_field.distances[PixelIndex(p)]
StoredTarget(p) == distance_field.distance_targets[PixelIndex(p)]

\* The squared Euclidean distance between two pixels.
SquaredDistance(p, q) ==
    (p[1] - q[1]) * (p[1] - q[1]) + (p[2] - q[2]) * (p[2] - q[2])

\* ------------------------------------------------------------------ C1
\* C1: for an image with width >= 1 and height >= 1 that has a boundary pixel,
\* every one of the width * height distances of the field compute returns is
\* finite.
C1_AllFinite ==
    (ComputeReturned /\ HasBoundary) =>
        /\ Len(distance_field.distances) = PixelCount
        /\ \A p \in Pixels : ~IsInfinite(StoredDistance(p))

\* A returned field whose only boundary lies in the last two pixels of the
\* raster, so that the first pixel is reached by the backward sweep alone.
C1_Witness ==
    /\ ComputeReturned
    /\ PixelCount >= 3
    /\ BoundaryPixels # {}
    /\ \A p \in BoundaryPixels : PixelIndex(p) >= PixelCount - 1
    /\ ~IsInfinite(StoredDistance(<<0, 0>>))

\* ------------------------------------------------------------------ C3
\* The stored magnitude of pixel p in field f is the Euclidean distance from p
\* to p's target, as the storage represents it (exactly the f32 distance in an
\* F32 storage, that distance rounded to f16 in an F16 storage).
ConsistentAt(f, p) ==
    LET i == f.width * p[2] + p[1] + 1
    IN  ~IsInfinite(f.distances[i]) =>
            Abs(f.distances[i]) =
                StorageValue(storage, F32Sqrt(SquaredDistance(p, f.distance_targets[i])))

\* The fields after each write of the visit the sweep makes next.
NextVisitWrites ==
    IF pc = "forward"
    THEN visit_writes(storage, distance_field, CurX, CurY, ForwardNeighbours,
                      candidates(distance_field, CurX, CurY, ForwardNeighbours),
                      get_distance(distance_field, CurX, CurY), 1)
    ELSE IF pc = "backward"
    THEN visit_writes(storage, distance_field, RevX, RevY, BackwardNeighbours,
                      candidates(distance_field, RevX, RevY, BackwardNeighbours),
                      get_distance(distance_field, RevX, RevY), 1)
    ELSE << >>

VisitedPixel == IF pc = "forward" THEN <<CurX, CurY>> ELSE <<RevX, RevY>>

C4_BoundaryZero ==
    ComputeReturned =>
        \A p \in BoundaryPixels : StoredDistance(p) = 0 /\ StoredTarget(p) = p

\* A returned field with a boundary pixel that both sweeps visited with a
\* finite candidate on offer: it has a boundary neighbour before and after it.
C4_Witness ==
    /\ ComputeReturned
    /\ \E p \in BoundaryPixels, q \in BoundaryPixels, r \in BoundaryPixels :
           /\ PixelIndex(q) < PixelIndex(p) /\ PixelIndex(p) < PixelIndex(r)
           /\ StoredDistance(p) = 0

NormalizationReturned == normalized.result \in {"None", "Some"}

\* C2: for a uniform image every distance of the returned field is infinite,
\* and a normalization of that field (normalize or normalize_clamped) returns
\* None, never a numeric result.
C2_UniformReportsEmpty ==
    (ComputeReturned /\ Readable /\ Uniform) =>
        /\ \A p \in Pixels : IsInfinite(StoredDistance(p))
        /\ NormalizationReturned => normalized.result = "None"

\* The same for images with at least one pixel, where no normalization panics
\* either: this part of C2 holds of the code.
C2_HoldsWithAPixel ==
    (ComputeReturned /\ Readable /\ Uniform /\ PixelCount >= 1) =>
        /\ \A p \in Pixels : IsInfinite(StoredDistance(p))
        /\ normalized.result \in {"pending", "None"}

\* ------------------------------------------------------------------ C6
\* tests::reconstruct_binary_image: the pixels whose reconstructed class
\* `distance < 0` differs from is_inside.
wrong_pixels == Cardinality({p \in Pixels : Inside(p) # (StoredDistance(p) < 0)})

\* Its panic on an infinite distance.
no_shape_panic == \E p \in Pixels : IsInfinite(StoredDistance(p))

\* Its assertion `quality < tolerance`, the tolerance given in percent.
quality_below(tolerance_percent) == 100 * wrong_pixels < tolerance_percent * PixelCount

\* The tolerances of the tests: 0.05, and 0.07 for the checkerboard.
TolerancePercent == 5
CheckerTolerancePercent == 7

InsideBoundaryPixels == {p \in BoundaryPixels : Inside(p)}

\* C6 as claimed: for any image with a boundary the reconstruction agrees with
\* is_inside on at least a (1 - eps) fraction of the pixels, eps = 0.05 (0.07
\* for checkerboards), and no distance is infinite.  Stated with the larger
\* tolerance, which the smaller one implies.
C6_RoundTripWithinTolerance ==
    (ComputeReturned /\ HasBoundary) =>
        ~no_shape_panic /\ quality_below(CheckerTolerancePercent)

\* C6 as amended: for any image with a boundary no distance is infinite and
\* the reconstruction agrees with is_inside on every pixel but, at most, the
\* inside boundary pixels: the agreeing fraction is at least
\* 1 - (inside boundary pixels) / (width * height), and the test's assertion
\* holds whenever the inside boundary pixels are fewer than eps of all pixels.
C6_RoundTripUpToBoundary ==
    (ComputeReturned /\ HasBoundary) =>
        /\ ~no_shape_panic
        /\ wrong_pixels <= Cardinality(InsideBoundaryPixels)
        /\ \A t \in {TolerancePercent, CheckerTolerancePercent} :
               100 * Cardinality(InsideBoundaryPixels) < t * PixelCount
                   => quality_below(t)

\* A returned field with inside and outside pixels off the boundary, all of
\* them reconstructed rightly, and a wrongly reconstructed boundary pixel.
C6_Witness ==
    /\ ComputeReturned
    /\ wrong_pixels >= 1
    /\ \E p \in Pixels \ BoundaryPixels, q \in Pixels \ BoundaryPixels :
           Inside(p) /\ ~Inside(q)
    /\ \A p \in Pixels \ BoundaryPixels : Inside(p) = (StoredDistance(p) < 0)

\* ------------------------------------------------------------------ C7
FieldMin == fold_min_max(distance_field.distances, PixelCount).min
FieldMax == fold_min_max(distance_field.distances, PixelCount).max

\* C7: normalize of a field computed from an image with a boundary returns a
\* field whose distances all lie in [0,1], with the former minimum at 0 and
\* the former maximum at 1, zero_distance = (0 - min) / (max - min) and the
\* former extrema recorded, also when the minimum equals the maximum.
C7_MinMaxNormalize ==
    (normalized.by = "normalize" /\ HasBoundary) =>
        /\ normalized.result = "Some"
        /\ normalized.former_min_distance = FieldMin
        /\ normalized.former_max_distance = FieldMax
        /\ normalized.zero_distance.cls = "num"
        /\ normalized.zero_distance =
               F32Div(F32Sub(0, FieldMin), F32Sub(FieldMax, FieldMin))
        /\ \A p \in Pixels :
               /\ InUnitRange(normalized.distances[PixelIndex(p)])
               /\ StoredDistance(p) = FieldMin
                      => normalized.distances[PixelIndex(p)] = FZero
               /\ StoredDistance(p) = FieldMax
                      => normalized.distances[PixelIndex(p)] = FOne

\* The same where the minimum is below the maximum: this part of C7 holds.
C7_HoldsWithPositiveSpan ==
    (normalized.by = "normalize" /\ HasBoundary /\ FieldMin < FieldMax) =>
        C7_MinMaxNormalize

\* ------------------------------------------------------------------ C8
AllFinite == \A p \in Pixels : ~IsInfinite(StoredDistance(p))

\* C8: normalize_clamped of a field of finite distances with max > 0 returns a
\* field whose values all lie in [0,1], with 0.5 at every boundary pixel, 1.0
\* wherever the distance was >= max, 0.0 wherever it was <= -max, and
\* zero_distance = 0.5.  Stated for the images that have a pixel.
C8_ClampedNormalize ==
    (normalized.by = "normalize_clamped" /\ PixelCount >= 1 /\ AllFinite) =>
        /\ normalized.result = "Some"
        /\ normalized.zero_distance = FHalf
        /\ \A p \in Pixels :
               LET d == StoredDistance(p)
                   v == normalized.distances[PixelIndex(p)]
               IN  /\ InUnitRange(v)
                   /\ d = 0 => v = FHalf
                   /\ d >= normalized.max => v = FOne
                   /\ d <= -normalized.max => v = FZero

\* The same for square images: this part of C8 holds.
C8_HoldsForSquareImages ==
    image.width = image.height => C8_ClampedNormalize

\* ------------------------------------------------------------------ C9
\* What a normalization makes of entry p of the field it consumed.
Rescaled(p) ==
    IF normalized.by = "normalize"
    THEN StorageFloat(storage, normalize(StoredDistance(p), FieldMin, FieldMax))
    ELSE StorageFloat(storage,
             normalize(Max(Min(StoredDistance(p), normalized.max), -normalized.max),
                       -normalized.max, normalized.max))

\* C9: a normalization accesses no index outside [0, w*h), and the field it
\* returns has the width and the height of the field it consumed, every one of
\* the w*h entries rescaled, and the extrema over all w*h entries recorded.
\* Stated for the images that have a pixel.
C9_ShapePreserved ==
    PixelCount >= 1 =>
        /\ normalized.result # "panic"
        /\ normalized.result = "Some" =>
           /\ normalized.width = distance_field.width
           /\ normalized.height = distance_field.height
           /\ Len(normalized.distances) = PixelCount
           /\ \A p \in Pixels : normalized.distances[PixelIndex(p)] = Rescaled(p)
           /\ normalized.former_min_distance = FieldMin
           /\ normalized.former_max_distance = FieldMax

\* The same for normalize, and for normalize_clamped on square images: this
\* part of C9 holds.
C9_HoldsForNormalizeAndSquareImages ==
    (normalized.by = "normalize" \/ image.width = image.height) => C9_ShapePreserved

\* ------------------------------------------------------------------ C10
\* An is_inside call of compute indexed past the buffer.
IsInsidePanicked ==
    pc = "panic" /\ image # NoImage /\ normalized.result = "pending"

\* C10: in every build, construction with a buffer whose length differs from
\* width * height fails: no image with a mismatched buffer exists, and
\* is_inside never indexes out of bounds.
C10_MismatchFailsAtConstruction ==
    /\ image # NoImage => Len(image.buffer) = image.width * image.height
    /\ ~IsInsidePanicked

\* The same in builds with debug assertions: this part of C10 holds.
C10_HoldsWithDebugAssertions ==
    debug_assertions => C10_MismatchFailsAtConstruction

\* ------------------------------------------------------------------ C11
\* C11: for an image over a buffer of width * height bytes and every in-range
\* (x, y), is_inside(x, y) is true exactly when the byte at y * width + x is
\* strictly greater than the threshold; an image from_slice constructs has
\* threshold 127, so that a byte 127 is outside and a byte 128 inside; and a
\* step that calls is_inside (edge seeding, sign flip) leaves the image as it was.
C11_IsInsideAboveThreshold ==
    [][/\ (pc' # "new" /\ pc' # "panic" /\ Len(image'.buffer) = image'.width * image'.height) =>
            \A x \in 0..(image'.width - 1), y \in 0..(image'.height - 1) :
                is_inside(image', x, y) <=>
                    image'.buffer[y * image'.width + x + 1] > image'.threshold
       /\ (FromSlice /\ pc' = "constructed") =>
            /\ image'.threshold = 127
            /\ Len(image'.buffer) = image'.width * image'.height =>
                \A x \in 0..(image'.width - 1), y \in 0..(image'.height - 1) :
                    /\ image'.buffer[y * image'.width + x + 1] = 127 => ~is_inside(image', x, y)
                    /\ image'.buffer[y * image'.width + x + 1] = 128 => is_inside(image', x, y)
       /\ (SeedStep \/ FlipStep) => image' = image
      ]_vars

\* An image with the default threshold holding a byte 127 and a byte 128, after
\* edge seeding and the sign flip have called is_inside on each of its pixels.
C11_Witness ==
    /\ pc = "done"
    /\ image.threshold = 127
    /\ Len(image.buffer) = PixelCount
    /\ \E p \in Pixels, q \in Pixels :
           /\ image.buffer[PixelIndex(p)] = 127 /\ ~is_inside(image, p[1], p[2])
           /\ image.buffer[PixelIndex(q)] = 128 /\ is_inside(image, q[1], q[2])

\* ------------------------------------------------------------------ C12
\* The neighbours the next visit of a sweep invokes take_neighbour_target for.
NextVisitTakes ==
    IF pc = "forward"
    THEN visit_takes(storage, distance_field, CurX, CurY, ForwardNeighbours,
                     candidates(distance_field, CurX, CurY, ForwardNeighbours),
                     get_distance(distance_field, CurX, CurY), 1)
    ELSE IF pc = "backward"
    THEN visit_takes(storage, distance_field, RevX, RevY, BackwardNeighbours,
                     candidates(distance_field, RevX, RevY, BackwardNeighbours),
                     get_distance(distance_field, RevX, RevY), 1)
    ELSE << >>

\* The coordinates the next step of compute calls is_inside with.
NextIsInsideCalls ==
    IF pc = "seed" THEN is_inside_calls(image, CurX, CurY, 1)
    ELSE IF pc = "flip" THEN {<<CurX, CurY>>}
    ELSE {}

\* The coordinates at which the next step of compute reads or writes distances
\* or distance_targets.
NextFieldAccesses ==
    IF pc = "seed" \/ pc = "flip" THEN {<<CurX, CurY>>}
    ELSE IF pc = "forward"
    THEN visit_reads(distance_field, CurX, CurY, ForwardNeighbours)
         \cup {NextVisitTakes[k] : k \in 1..Len(NextVisitTakes)}
    ELSE IF pc = "backward"
    THEN visit_reads(distance_field, RevX, RevY, BackwardNeighbours)
         \cup {NextVisitTakes[k] : k \in 1..Len(NextVisitTakes)}
    ELSE {}

\* A coordinate inside the raster, with its row-major index in [0, width * height).
InRaster(c) ==
    /\ 0 <= c[1] /\ c[1] < image.width
    /\ 0 <= c[2] /\ c[2] < image.height
    /\ 0 <= image.width * c[2] + c[1]
    /\ image.width * c[2] + c[1] < image.width * image.height

\* C12: at every step of compute, for any dimensions, is_inside is called with
\* in-range coordinates only, every read or write of distances and
\* distance_targets is at a coordinate inside the raster, and
\* take_neighbour_target is invoked for neighbours inside the raster only.
C12_AccessesInRaster ==
    /\ \A c \in NextIsInsideCalls : InRaster(c)
    /\ \A c \in NextFieldAccesses : InRaster(c)
    /\ \A k \in 1..Len(NextVisitTakes) : InRaster(NextVisitTakes[k])
    /\ Len(distance_field.distances) = distance_field.width * distance_field.height
    /\ Len(distance_field.distance_targets) = distance_field.width * distance_field.height
    /\ FieldAllocated =>
           distance_field.width = image.width /\ distance_field.height = image.height

\* A visit at a corner of an image one pixel wide: three of its four neighbours
\* are absent, and it takes the target of the one that exists.
C12_Witness ==
    /\ pc \in {"forward", "backward"}
    /\ image.width = 1 /\ image.height >= 2
    /\ Len(NextVisitTakes) = 1
    /\ InRaster(NextVisitTakes[1])

\* ------------------------------------------------------------------ C13
\* The offsets of the sweep in progress and the comparisons of its next visit.
SweepNeighbours == IF pc = "forward" THEN ForwardNeighbours ELSE BackwardNeighbours

NextVisitSteps ==
    IF pc \in {"forward", "backward"}
    THEN visit_steps(storage, distance_field, VisitedPixel[1], VisitedPixel[2],
                     SweepNeighbours,
                     candidates(distance_field, VisitedPixel[1], VisitedPixel[2],
                                SweepNeighbours),
                     get_distance(distance_field, VisitedPixel[1], VisitedPixel[2]), 1)
    ELSE << >>

\* The field the sweep's next step leaves.
NextVisit ==
    visit(storage, distance_field, VisitedPixel[1], VisitedPixel[2], SweepNeighbours)

\* The distance and the target field f holds for the visited pixel.
VisitedDistance(f) == f.distances[PixelIndex(VisitedPixel)]
VisitedTarget(f) == f.distance_targets[PixelIndex(VisitedPixel)]

\* The neighbour of the visited pixel at an offset.
NeighbourAt(offset) == <<VisitedPixel[1] + offset[1], VisitedPixel[2] + offset[2]>>

\* The length of an offset of a sweep: 1, or sqrt(2) as an f32.
OffsetLength(offset) == IF offset[1] # 0 /\ offset[2] # 0 THEN F32Sqrt(2) ELSE Unit

\* C13 as stated: update rule of both sweeps.  In a visit the pixel adopts the target of
\* a neighbour only where that neighbour is in bounds and its candidate (the
\* neighbour's stored distance plus the length of the offset, 1 or sqrt(2)) is
\* strictly smaller than the pixel's current stored distance; a candidate equal
\* to the current distance leaves distance and target as they are, and a visit
\* none of whose candidates is strictly smaller leaves the field unchanged.
C13_StrictUpdate ==
    pc \in {"forward", "backward"} =>
        /\ \A k \in 1..Len(NextVisitSteps) :
               LET s == NextVisitSteps[k]
                   n == NeighbourAt(s.offset)
               IN  /\ s.took =>
                          /\ InRaster(n)
                          /\ s.candidate = F32Add(StoredDistance(n), OffsetLength(s.offset))
                          /\ s.candidate < VisitedDistance(s.before)
                          /\ VisitedTarget(s.after) = StoredTarget(n)
                   /\ s.candidate = VisitedDistance(s.before) =>
                          ~s.took /\ s.after = s.before
                   /\ ~s.took => s.after = s.before
        /\ (\A k \in 1..Len(NextVisitSteps) :
                NextVisitSteps[k].candidate >= VisitedDistance(distance_field))
               => NextVisit = distance_field
        /\ NextVisit = NextVisitSteps[Len(NextVisitSteps)].after

\* A visit in which a neighbour with another target offers a candidate equal to
\* the visited pixel's finite distance, and the pixel keeps its target.
C13_Witness ==
    /\ pc \in {"forward", "backward"}
    /\ ~IsInfinite(VisitedDistance(distance_field))
    /\ \E k \in 1..Len(NextVisitSteps) :
           LET s == NextVisitSteps[k]
               n == NeighbourAt(s.offset)
           IN  /\ InRaster(n)
               /\ s.candidate = VisitedDistance(s.before)
               /\ StoredTarget(n) # VisitedTarget(s.before)
               /\ VisitedTarget(NextVisit) = VisitedTarget(s.before)

\* The f32 distance from the visited pixel to the target field f holds for it.
VisitedTargetDistance(f) == F32Sqrt(SquaredDistance(VisitedPixel, VisitedTarget(f)))

\* C13 as the code has it: the candidate is compared with `own`, which is the
\* pixel's stored distance at the first comparison of a visit and, after a
\* take, the f32 distance to the target just adopted.  A take happens exactly
\* where the candidate of an in-bounds neighbour is strictly smaller than
\* `own`; a candidate equal to `own` leaves distance and target as they are.
\* `own` is the stored distance in an F32 storage; an F16 storage holds `own`
\* rounded to f16.
C13_StrictAgainstOwn ==
    pc \in {"forward", "backward"} =>
        /\ \A k \in 1..Len(NextVisitSteps) :
               LET s == NextVisitSteps[k]
                   n == NeighbourAt(s.offset)
               IN  /\ s.took =>
                          /\ InRaster(n)
                          /\ s.candidate = F32Add(StoredDistance(n), OffsetLength(s.offset))
                          /\ s.candidate < s.own
                          /\ VisitedTarget(s.after) = StoredTarget(n)
                          /\ s.own_after = VisitedTargetDistance(s.after)
                   /\ s.candidate >= s.own => ~s.took
                   /\ ~s.took => s.after = s.before /\ s.own_after = s.own
                   /\ s.own = IF k = 1 THEN VisitedDistance(distance_field)
                              ELSE NextVisitSteps[k - 1].own_after
                   /\ VisitedDistance(s.before) = StorageValue(storage, s.own)
        /\ (\A k \in 1..Len(NextVisitSteps) :
                NextVisitSteps[k].candidate >= VisitedDistance(distance_field))
               => NextVisit = distance_field
        /\ NextVisit = NextVisitSteps[Len(NextVisitSteps)].after

\* ------------------------------------------------------------------ C14
\* The edge-seeding loop has passed pixel p.
Seeded(p) == pc # "seed" \/ PixelIndex(p) <= cursor

\* C14: the field compute allocates has exactly width * height distance slots,
\* all +infinity; once the edge-seeding loop has passed a pixel, and until the
\* sweeps begin, that pixel has distance 0 and itself as target if and only if
\* its classification differs from an in-bounds 4-connected neighbour's, and
\* has distance +infinity otherwise; so it is for every pixel after the stage.
C14_SeededState ==
    /\ (pc = "seed" /\ cursor = 0) =>
           /\ Len(distance_field.distances) = PixelCount
           /\ Len(distance_field.distance_targets) = PixelCount
           /\ \A p \in Pixels : StoredDistance(p) = INFINITY
    /\ ((pc = "seed" \/ (pc = "forward" /\ cursor = 0)) /\ Readable) =>
           \A p \in Pixels :
               /\ Seeded(p) =>
                      /\ (StoredDistance(p) = 0 /\ StoredTarget(p) = p) <=> IsBoundary(p)
                      /\ ~IsBoundary(p) => StoredDistance(p) = INFINITY
               /\ ~Seeded(p) => StoredDistance(p) = INFINITY

\* The state between edge seeding and the forward sweep of an image with a
\* boundary pixel at distance 0 and a pixel off the boundary at +infinity.
C14_Witness ==
    /\ pc = "forward" /\ cursor = 0
    /\ Readable
    /\ \E p \in Pixels, q \in Pixels :
           /\ IsBoundary(p) /\ StoredDistance(p) = 0 /\ StoredTarget(p) = p
           /\ p # <<0, 0>>
           /\ ~IsBoundary(q) /\ StoredDistance(q) = INFINITY

\* ------------------------------------------------------------------ C15
\* v * v < n * 2^46 computed exactly in pieces of 12 bits: the value v (in
\* units of 2^-23) lies below the real square root of n.
BelowRoot(v, n) ==
    LET a == v \div 4096
        b == v % 4096
        c == (2 * a * b) \div 4096
        d == (2 * a * b) % 4096
        r == d * 4096 + b * b
    IN  a * a + c + (r \div 16777216) < n * 4194304

\* The squared distance from pixel p to its nearest boundary pixel.
NearestSquared(p) ==
    CHOOSE n \in {SquaredDistance(p, b) : b \in BoundaryPixels} :
        \A b \in BoundaryPixels : n <= SquaredDistance(p, b)

\* In field f every pixel with a finite distance has a boundary pixel as target.
TargetsOnBoundary(f) ==
    \A p \in Pixels :
        ~IsInfinite(f.distances[PixelIndex(p)]) =>
            LET t == f.distance_targets[PixelIndex(p)]
            IN  t \in Pixels /\ IsBoundary(t)

\* C15 as stated: at every point of compute and in the returned field, every
\* pixel with a finite distance has a boundary pixel as its target, its stored
\* magnitude is not smaller than the true Euclidean distance to its nearest
\* boundary pixel, and it has distance 0 only if it is a boundary pixel.
C15_NeverUnderestimates ==
    (FieldAllocated /\ Readable) =>
        /\ TargetsOnBoundary(distance_field)
        /\ \A k \in 1..Len(NextVisitWrites) : TargetsOnBoundary(NextVisitWrites[k])
        /\ \A p \in Pixels :
               ~IsInfinite(StoredDistance(p)) =>
                   /\ \E b \in Pixels :
                          /\ ~BelowRoot(Abs(StoredDistance(p)), SquaredDistance(p, b))
                          /\ IsBoundary(b)
                   /\ StoredDistance(p) = 0 => IsBoundary(p)

\* C15 with the rounding of the representation: the stored magnitude is not
\* smaller than the distance to the nearest boundary pixel as the storage
\* holds it (the f32 square root, rounded to f16 in an F16 storage), which may
\* itself lie below the real distance.
C15_TargetsOnBoundary ==
    (FieldAllocated /\ Readable) =>
        /\ TargetsOnBoundary(distance_field)
        /\ \A k \in 1..Len(NextVisitWrites) : TargetsOnBoundary(NextVisitWrites[k])
        /\ \A p \in Pixels :
               ~IsInfinite(StoredDistance(p)) =>
                   /\ \E b \in Pixels :
                          /\ Abs(StoredDistance(p)) >=
                                 StorageValue(storage, F32Sqrt(SquaredDistance(p, b)))
                          /\ IsBoundary(b)
                   /\ StoredDistance(p) = 0 => IsBoundary(p)

\* A returned field with a pixel whose target is a boundary pixel diagonal to
\* it, its nearest one: the stored square root of 2 lies below the real one.
C15_Witness ==
    /\ ComputeReturned /\ Readable
    /\ \E p \in Pixels \ BoundaryPixels :
           /\ StoredTarget(p) \in BoundaryPixels
           /\ SquaredDistance(p, StoredTarget(p)) = 2
           /\ NearestSquared(p) = 2
           /\ BelowRoot(Abs(StoredDistance(p)), 2)

\* ------------------------------------------------------------------ C16
\* The pixels at which the reconstructed predicate get_distance(x, y) < 0
\* differs from is_inside(x, y).
WrongPixels ==
    {p \in Pixels :
        is_inside(image, p[1], p[2]) # (get_distance(distance_field, p[1], p[2]) < 0)}

\* C16: in the field returned for an image with a boundary, the reconstructed
\* predicate get_distance(x, y) < 0 disagrees with is_inside(x, y) at exactly
\* the inside boundary pixels, whose distance is a negated zero; every other
\* pixel is reconstructed correctly.
C16_WrongExactlyInsideBoundary ==
    (ComputeReturned /\ HasBoundary) =>
        /\ WrongPixels = InsideBoundaryPixels
        /\ \A p \in InsideBoundaryPixels : StoredDistance(p) = 0
        /\ wrong_pixels = Cardinality(InsideBoundaryPixels)

\* A returned field with an inside boundary pixel, reconstructed wrongly, and
\* an inside pixel off the boundary, reconstructed rightly.
C16_Witness ==
    /\ ComputeReturned /\ HasBoundary
    /\ \E p \in InsideBoundaryPixels, q \in Pixels \ BoundaryPixels :
           /\ p \in WrongPixels
           /\ Inside(q) /\ q \notin WrongPixels /\ StoredDistance(q) < 0

\* ------------------------------------------------------------------ C17
\* Field g holds no larger a distance than field f at any pixel.
NoIncrease(f, g) ==
    \A p \in Pixels : g.distances[PixelIndex(p)] <= f.distances[PixelIndex(p)]

\* C17 as stated: monotone descent in the sweeps.  No write of a visit
\* increases the stored distance of any pixel, and right after a visit the
\* visited pixel's stored distance is less than or equal to its distance
\* before the visit and to each of the four candidates examined in the visit.
C17_MonotoneDescent ==
    pc \in {"forward", "backward"} =>
        /\ \A k \in 1..Len(NextVisitSteps) :
               /\ NoIncrease(NextVisitSteps[k].before, NextVisitSteps[k].after)
               /\ VisitedDistance(NextVisit) <= NextVisitSteps[k].candidate
        /\ NoIncrease(distance_field, NextVisit)
        /\ VisitedDistance(NextVisit) <= VisitedDistance(distance_field)

\* The most by which rounding lets the distance recomputed from a target exceed
\* the additive candidate it was taken for: a few units in the last place of
\* the storage's format (2^-22 of the candidate as f32, 2^-9 as f16).
RoundingSlack(candidate) ==
    IF IsInfinite(candidate) THEN 0
    ELSE candidate \div (IF storage = "F16" THEN 512 ELSE 4194304)

\* C17 with the rounding of the recomputed distance: no write of a visit
\* increases the stored distance of any pixel; right after a visit the visited
\* pixel's stored distance is less than or equal to its distance before the
\* visit and to every candidate that was not taken, and exceeds a candidate
\* that was taken by no more than the rounding of the distance recomputed from
\* the adopted target.
C17_DescentUpToRounding ==
    pc \in {"forward", "backward"} =>
        /\ \A k \in 1..Len(NextVisitSteps) :
               LET s == NextVisitSteps[k]
               IN  /\ NoIncrease(s.before, s.after)
                   /\ ~s.took => VisitedDistance(NextVisit) <= s.candidate
                   /\ s.took =>
                          /\ VisitedDistance(s.after) =
                                 StorageValue(storage, VisitedTargetDistance(s.after))
                          /\ VisitedDistance(NextVisit) <=
                                 s.candidate + RoundingSlack(s.candidate)
        /\ NoIncrease(distance_field, NextVisit)
        /\ VisitedDistance(NextVisit) <= VisitedDistance(distance_field)

\* A visit that takes a target from an earlier-examined neighbour and replaces
\* it by that of a later-examined one, the stored distance falling each time.
C17_Witness ==
    /\ pc \in {"forward", "backward"}
    /\ \E j \in 1..Len(NextVisitSteps), k \in 1..Len(NextVisitSteps) :
           /\ j < k
           /\ NextVisitSteps[j].took /\ NextVisitSteps[k].took
           /\ VisitedTarget(NextVisitSteps[k].after) # VisitedTarget(NextVisitSteps[j].after)
           /\ VisitedDistance(NextVisitSteps[k].after) < VisitedDistance(NextVisitSteps[j].after)
           /\ VisitedDistance(NextVisit) < VisitedDistance(distance_field)

\* ------------------------------------------------------------------ C18
\* C18: frame of the sign-flip stage.  Each step of the stage visits the next
\* pixel of the raster, so every pixel once; it negates that pixel's stored
\* distance if is_inside is true for it and leaves it otherwise, and leaves
\* unchanged every other distance, every entry of distance_targets, the
\* field's width and height, and the image: the pixels passed are non-positive
\* where inside and non-negative where outside, the others still non-negative.
\* Once compute has returned, no step changes the field or the image (a
\* normalization takes the field by value: what it writes is its own result).
C18_SignFlipFrame ==
    [][/\ (pc = "flip" /\ pc' # "panic") =>
            LET p == <<CurX, CurY>>
                i == PixelIndex(p)
            IN  /\ i = cursor + 1
                /\ distance_field'.distances =
                       [j \in 1..PixelCount |->
                           IF j = i /\ is_inside(image, p[1], p[2])
                           THEN F32Neg(distance_field.distances[j])
                           ELSE distance_field.distances[j]]
                /\ distance_field'.distance_targets = distance_field.distance_targets
                /\ distance_field'.width = distance_field.width
                /\ distance_field'.height = distance_field.height
                /\ image' = image
                /\ \/ pc' = "flip" /\ cursor' = cursor + 1
                   \/ pc' = "done" /\ cursor + 1 = PixelCount
                /\ \A q \in Pixels :
                       IF PixelIndex(q) <= i /\ Inside(q)
                       THEN distance_field'.distances[PixelIndex(q)] <= 0
                       ELSE distance_field'.distances[PixelIndex(q)] >= 0
       /\ (pc = "done" \/ pc = "normalized") =>
            distance_field' = distance_field /\ image' = image
      ]_vars

\* The sign-flip stage under way: an inside pixel already passed, negative, an
\* inside pixel not yet reached, still positive, and targets other than the
\* allocation's.
C18_Witness ==
    /\ pc = "flip" /\ cursor >= 1
    /\ \E p \in Pixels, q \in Pixels :
           /\ PixelIndex(p) <= cursor /\ Inside(p)
           /\ StoredDistance(p) < 0 /\ StoredTarget(p) # p
           /\ PixelIndex(q) > cursor /\ Inside(q)
           /\ StoredDistance(q) > 0 /\ StoredTarget(q) # <<0, 0>>

====
